---- MODULE Spec2Model ----
(***************************************************************************)
(* Conway's Game of Life with an SDL display (src/src/main.c).             *)
(*                                                                         *)
(* The model follows main(): the start-up checks, SDL set-up, the two      *)
(* initialisers (populateRandomCells, readInput) and the frame loop with   *)
(* its event polling, drawScreen, updateCells and end-of-frame delay.      *)
(* The configuration constants of the source (SCR_WIDTH, CELL_SIZE, FPS,   *)
(* ...) are state that Init draws from small ranges, so that valid and     *)
(* invalid configurations are both covered.                                *)
(***************************************************************************)
EXTENDS Integers, Sequences, FiniteSets, TLC

(***************************************************************************)
(* Bounds of the model.                                                    *)
(***************************************************************************)
MaxArgc == 3
MaxScrWidth == 2
MaxScrHeight == 2
MaxCellSize == 2
MaxCells == 3
MaxFps == 3
MaxSimFps == 2
MaxFileLen == 4
MaxGarbage == 2
MaxGridW == 3
MaxGridH == 3
MaxGridCells == 9
MaxOverrun == 1

(***************************************************************************)
(* Constants of the program and of the C library it uses.                  *)
(***************************************************************************)
EXIT_SUCCESS == 0
EXIT_FAILURE == 1
EOF == -1
NEWLINE == 10
HASH == 35
DOT == 46
\* a Uint32 is kept as two 16-bit halves; HALF is the number of values of one
HALF == 65536

\* exitCode before main has returned
NoExit == -1
\* a cell of the array that no statement has assigned yet
Indet == -1
\* the cells array before its declaration is reached
NoGrid == << >>

VARIABLES
    argc, SCR_WIDTH, SCR_HEIGHT, CELL_SIZE, FPS, SIMULATION_FPS, charSigned,
    pc, exitCode, sdlInit, window, cells, x, y, nread, frame, quit,
    oldCells, neighbors, newCells, transitioned, ticked, hist,
    drawsInFrame, drawsOfGen, frameStartTime, frameTime, delayMs, text,
    loopStarted, openFailed, sawInvalid, oob, sawQuit, drawnSinceQuit,
    startedSinceQuit

config == << argc, SCR_WIDTH, SCR_HEIGHT, CELL_SIZE, FPS, SIMULATION_FPS,
             charSigned >>
reader == << x, y, nread, openFailed, sawInvalid, oob >>
update == << oldCells, neighbors, newCells, transitioned >>
draws == << drawsInFrame, drawsOfGen >>
timing == << frameStartTime, frameTime, delayMs >>
quitObs == << sawQuit, drawnSinceQuit, startedSinceQuit >>
vars == << config, reader, update, draws, timing, text, quitObs, pc, exitCode, sdlInit, window,
           cells, frame, quit, ticked, hist, loopStarted >>

(***************************************************************************)
(* Derived constants (main.c:21-24).                                       *)
(***************************************************************************)
N_CELLS_ROW == SCR_WIDTH \div CELL_SIZE
N_CELLS_COL == SCR_HEIGHT \div CELL_SIZE
FRAMES_PER_ITERATION == FPS \div SIMULATION_FPS

Coords == (0 .. N_CELLS_ROW - 1) \X (0 .. N_CELLS_COL - 1)

LoopPcs == {"loop", "poll", "draw", "update", "copy", "delay"}

(***************************************************************************)
(* main: the start-up checks (main.c:35-51).                               *)
(***************************************************************************)
TooManyArgsOffByOne(n) == n > 3
TooManyArgs(n) == n > 2

BadCellSize == (SCR_WIDTH % CELL_SIZE # 0) \/ (SCR_HEIGHT % CELL_SIZE # 0)

BadRate == FRAMES_PER_ITERATION = 0

CheckStartup ==
    /\ pc = "start"
    /\ IF TooManyArgs(argc) \/ BadCellSize \/ BadRate
         THEN /\ pc' = "done"
              /\ exitCode' = EXIT_FAILURE
         ELSE /\ pc' = "setup"
              /\ UNCHANGED exitCode
    /\ UNCHANGED << config, reader, update, draws, timing, text, quitObs, sdlInit, window, cells,
                    frame, quit, ticked, hist, loopStarted >>

(***************************************************************************)
(* main: SDL_Init, SDL_CreateWindow, the declaration of cells and the      *)
(* choice of the initialiser (main.c:56-68).  With an argc that is neither *)
(* 1 nor 2 no initialiser runs and the loop starts.                        *)
(***************************************************************************)
SdlSetup ==
    /\ pc = "setup"
    /\ sdlInit' = TRUE
    /\ window' = TRUE
    /\ cells' = [c \in Coords |-> Indet]
    /\ pc' = IF argc = 1 THEN "populate" ELSE IF argc = 2 THEN "open" ELSE "loop"
    /\ loopStarted' = (argc # 1 /\ argc # 2)
    /\ UNCHANGED << config, reader, update, draws, timing, text, quitObs, exitCode, frame, quit,
                    ticked, hist >>

(***************************************************************************)
(* populateRandomCells (main.c:221-226): every cell is rand() % 2.         *)
(***************************************************************************)
populateRandomCells ==
    /\ pc = "populate"
    /\ cells' \in [Coords -> {0, 1}]
    /\ pc' = "loop"
    /\ loopStarted' = TRUE
    /\ UNCHANGED << config, reader, update, draws, timing, text, quitObs, exitCode, sdlInit, window,
                    frame, quit, ticked, hist >>

(***************************************************************************)
(* readInput (main.c:181-211).                                             *)
(***************************************************************************)
\* the bytes a file of the model is made of: '\n', '#', '.', 'x', 0xFF
FileBytes == {NEWLINE, HASH, DOT, 120, 255}

\* the conversion of fgetc's int result to the variable char c (main.c:190,192)
ToChar(b) ==
    LET u == b % 256
    IN  IF charSigned /\ u >= 128 THEN u - 256 ELSE u

\* What the bytes read so far say as a text block: the position in the
\* text, the cell values it gives, whether every line so far has exactly
\* N_CELLS_ROW characters of '#' and '.' and there are at most N_CELLS_COL
\* lines (ok), whether a cell character lies beyond the grid (over), and
\* whether the end of the file was reached (eof).
NoText ==
    [col |-> 0, row |-> 0, grid |-> NoGrid, ok |-> FALSE, over |-> FALSE,
     eof |-> FALSE]

EmptyText ==
    [col |-> 0, row |-> 0, grid |-> [d \in Coords |-> Indet], ok |-> TRUE,
     over |-> FALSE, eof |-> FALSE]

BadText(t) == [NoText EXCEPT !.over = t.over, !.eof = t.eof]

TextStep(t, b) ==
    IF b = EOF THEN [t EXCEPT !.eof = TRUE]
    ELSE IF b = NEWLINE
      THEN IF t.ok /\ t.col = N_CELLS_ROW
             THEN [t EXCEPT !.col = 0, !.row = t.row + 1]
             ELSE BadText(t)
    ELSE IF b = HASH \/ b = DOT
      THEN IF t.ok /\ t.col < N_CELLS_ROW /\ t.row < N_CELLS_COL
             THEN [t EXCEPT !.col = t.col + 1,
                            !.grid[<< t.col, t.row >>] = IF b = HASH THEN 1 ELSE 0]
             ELSE IF t.ok
               THEN [BadText(t) EXCEPT !.over = TRUE]
               ELSE BadText(t)
    ELSE BadText(t)

\* fopen and its failure branch (main.c:183-187, 68)
OpenInput ==
    /\ pc = "open"
    /\ \/ /\ openFailed' = TRUE
          /\ pc' = "done"
          /\ exitCode' = EXIT_FAILURE
          /\ UNCHANGED << x, y, text >>
       \/ /\ openFailed' = FALSE
          /\ text' = EmptyText
          /\ pc' = "read"
          /\ x' = 0
          /\ y' = 0
          /\ UNCHANGED exitCode
    /\ UNCHANGED << config, nread, sawInvalid, oob, update, draws, timing, quitObs,
                    sdlInit,
                    window, cells, frame, quit, ticked, hist, loopStarted >>

\* the store cells[x][y] = v into bool cells[N_CELLS_ROW][N_CELLS_COL]
\* (main.c:197,200); the array is contiguous, cell (i, j) at i*N_CELLS_COL + j
InBounds(i, j) == i >= 0 /\ i < N_CELLS_ROW /\ j >= 0 /\ j < N_CELLS_COL

FlatIndex(i, j) == i * N_CELLS_COL + j

StoreCell(c, i, j, v) ==
    IF InBounds(i, j)
      THEN [c EXCEPT ![<< i, j >>] = v]
      ELSE IF FlatIndex(i, j) < N_CELLS_ROW * N_CELLS_COL
             THEN [c EXCEPT ![<< FlatIndex(i, j) \div N_CELLS_COL,
                                 FlatIndex(i, j) % N_CELLS_COL >>] = v]
             ELSE c

\* one iteration of the reading loop (main.c:192-207), its exit at EOF
\* (main.c:209-210) and the caller's test of the result (main.c:68); on the
\* successful return the file is closed and the locals x and y are gone
ReadChar ==
    /\ pc = "read"
    /\ \E b \in (IF nread < MaxFileLen THEN FileBytes ELSE {}) \cup {EOF} :
         LET c == ToChar(b)
         IN  /\ nread' = IF c = EOF THEN 0
                        ELSE IF b = EOF THEN nread ELSE nread + 1
             /\ sawInvalid' = (sawInvalid \/ b \notin {EOF, NEWLINE, HASH, DOT})
             /\ text' = TextStep(text, b)
             /\ IF c = EOF
                  THEN /\ pc' = "loop"
                       /\ loopStarted' = TRUE
                       /\ x' = 0
                       /\ y' = 0
                       /\ UNCHANGED << cells, exitCode, oob >>
                  ELSE IF c = NEWLINE
                  THEN /\ x' = 0
                       /\ y' = y + 1
                       /\ UNCHANGED << pc, cells, exitCode, oob, loopStarted >>
                  ELSE IF c = HASH \/ c = DOT
                  THEN /\ x' = x + 1
                       /\ oob' = (oob \/ ~InBounds(x, y))
                       /\ UNCHANGED << y, loopStarted >>
                       \* an out-of-bounds store either lands where the
                       \* address arithmetic puts it or stops the process
                       /\ \/ /\ cells' = StoreCell(cells, x, y,
                                                   IF c = HASH THEN 1 ELSE 0)
                             /\ UNCHANGED << pc, exitCode >>
                          \/ /\ ~InBounds(x, y)
                             /\ pc' = "crashed"
                             /\ UNCHANGED << cells, exitCode >>
                  ELSE /\ pc' = "done"
                       /\ exitCode' = EXIT_FAILURE
                       /\ UNCHANGED << x, y, cells, oob, loopStarted >>
    /\ UNCHANGED << config, openFailed, update, draws, timing, quitObs, sdlInit, window,
                    frame, quit, ticked, hist >>

(***************************************************************************)
(* The frame loop of main (main.c:72-94).                                  *)
(***************************************************************************)
Events ==
    { [type |-> "SDL_QUIT", sym |-> "none"],
      [type |-> "SDL_KEYDOWN", sym |-> "SDLK_ESCAPE"],
      [type |-> "SDL_KEYDOWN", sym |-> "SDLK_SPACE"],
      [type |-> "SDL_KEYUP", sym |-> "SDLK_ESCAPE"],
      [type |-> "SDL_MOUSEMOTION", sym |-> "none"] }

\* what the user does to ask for the end of the program: closing the window
\* or pressing Escape
UserQuit(e) ==
    e \in { [type |-> "SDL_QUIT", sym |-> "none"],
            [type |-> "SDL_KEYDOWN", sym |-> "SDLK_ESCAPE"] }

\* the test of a polled event (main.c:78-79)
IsQuitEventNoEscape(e) == e.type = "SDL_QUIT"
IsQuitEventAnyKey(e) == (e.type = "SDL_QUIT") \/ (e.type = "SDL_KEYDOWN")
IsQuitEvent(e) ==
    (e.type = "SDL_QUIT")
        \/ ((e.type = "SDL_KEYDOWN") /\ (e.sym = "SDLK_ESCAPE"))

\* the initial value of the frame counter (main.c:73)
FirstFrameOne == 0 + 1
FirstFrame == 0

\* the step of the for statement (main.c:73)
NextFrameOffByOne(f) == (f + 1) % (FRAMES_PER_ITERATION + 1)
NextFrame(f) == (f + 1) % FRAMES_PER_ITERATION

\* the target length of a frame in milliseconds (main.c:90)
FrameInterval == 1000 \div FPS

\* a Uint32 (main.c:74, 89): the value hi * HALF + lo
U32(n) == [hi |-> (n \div HALF) % HALF, lo |-> n % HALF]

\* the sum of a Uint32 and a number of milliseconds, modulo 2^32
AddU32(a, n) ==
    [hi |-> (a.hi + ((a.lo + n) \div HALF)) % HALF, lo |-> (a.lo + n) % HALF]

\* the difference of two Uint32 values, modulo 2^32 (main.c:89, 90)
SubU32(a, b) ==
    [hi |-> (a.hi - b.hi - (IF a.lo < b.lo THEN 1 ELSE 0)) % HALF,
     lo |-> (a.lo - b.lo) % HALF]

\* a > b on Uint32 values (main.c:90)
GtU32(a, b) == (a.hi > b.hi) \/ (a.hi = b.hi /\ a.lo > b.lo)

\* the argument of SDL_Delay (main.c:90)
DelayForNoGuard(ft) == SubU32(U32(FrameInterval), ft)
DelayFor(ft) ==
    IF GtU32(ft, U32(FrameInterval)) THEN U32(0)
    ELSE SubU32(U32(FrameInterval), ft)

\* the values SDL_GetTicks returns at the start of a frame: the counter of
\* milliseconds is a Uint32 and wraps (main.c:74)
StartTicks == {U32(0), [hi |-> HALF - 1, lo |-> HALF - 1]}

\* the loop condition holds: a frame starts (main.c:73-74)
StartFrame ==
    /\ pc = "loop"
    /\ ~quit
    /\ pc' = "poll"
    /\ ticked' = FALSE
    /\ drawsInFrame' = 0
    /\ startedSinceQuit' = (startedSinceQuit \/ sawQuit)
    /\ frameStartTime' \in StartTicks
    /\ frameTime' = U32(0)
    /\ delayMs' = U32(0)
    /\ text' = NoText
    /\ UNCHANGED << config, reader, update, drawsOfGen, sawQuit, drawnSinceQuit, exitCode,
                    sdlInit, window, cells, frame, quit, hist, loopStarted >>

\* the loop condition fails: main returns (main.c:73, 94)
ExitLoop ==
    /\ pc = "loop"
    /\ quit
    /\ pc' = "done"
    /\ exitCode' = EXIT_SUCCESS
    /\ UNCHANGED << config, reader, update, draws, timing, text, quitObs, sdlInit, window, cells,
                    frame, quit, ticked, hist, loopStarted >>

\* SDL_PollEvent returned an event (main.c:77-81)
PollEvent ==
    /\ pc = "poll"
    /\ \E e \in Events :
         /\ quit' = (quit \/ IsQuitEvent(e))
         /\ sawQuit' = (sawQuit \/ UserQuit(e))
    /\ UNCHANGED << config, reader, update, draws, timing, text, drawnSinceQuit, startedSinceQuit,
                    pc, exitCode, sdlInit, window, cells, frame, ticked, hist,
                    loopStarted >>

\* SDL_PollEvent returned 0: the queue is drained (main.c:77)
PollDone ==
    /\ pc = "poll"
    /\ pc' = "draw"
    /\ UNCHANGED << config, reader, update, draws, timing, text, quitObs, exitCode, sdlInit, window,
                    cells, frame, quit, ticked, hist, loopStarted >>

\* drawScreen and the test that follows it (main.c:84-85, 151-167)
drawScreen ==
    /\ pc = "draw"
    /\ drawnSinceQuit' = (drawnSinceQuit \/ sawQuit)
    /\ drawsInFrame' = drawsInFrame + 1
    /\ drawsOfGen' = drawsOfGen + 1
    /\ pc' = IF frame = 0 THEN "update" ELSE "delay"
    /\ UNCHANGED << config, reader, update, timing, text, sawQuit, startedSinceQuit, exitCode,
                    sdlInit, window, cells, frame, quit, ticked, hist,
                    loopStarted >>

\* the milliseconds a frame takes before its delay
ElapsedChoices ==
    {0, FrameInterval} \cup {FrameInterval + k : k \in 1 .. MaxOverrun}

\* the end of the frame: the second SDL_GetTicks, SDL_Delay and the loop's
\* step (main.c:89-90, 73)
FrameDelay ==
    /\ pc = "delay"
    /\ \E dt \in ElapsedChoices :
         LET now == AddU32(frameStartTime, dt)
         IN  /\ frameTime' = SubU32(now, frameStartTime)
             /\ delayMs' = DelayFor(SubU32(now, frameStartTime))
    /\ frame' = NextFrame(frame)
    /\ hist' = LET h == Append(hist, ticked)
               IN  IF Len(h) > FRAMES_PER_ITERATION THEN Tail(h) ELSE h
    /\ pc' = "loop"
    /\ UNCHANGED << config, reader, update, draws, frameStartTime, text, quitObs,
                    exitCode, sdlInit, window, cells, quit, ticked, loopStarted >>

(***************************************************************************)
(* updateCells (main.c:105-141).                                           *)
(***************************************************************************)
\* what one (dx, dy) of the counting loops adds (main.c:115-118)
CellAtWrap(c, i, j) == c[<< i % N_CELLS_ROW, j % N_CELLS_COL >>]
CellAt(c, i, j) ==
    IF (i < 0) \/ (i >= N_CELLS_ROW) THEN 0
    ELSE IF (j < 0) \/ (j >= N_CELLS_COL) THEN 0
    ELSE c[<< i, j >>]

\* the value of neighbors after the counting loops (main.c:113-120)
CountNeighborsSkipSelf(c, i, j) ==
      CellAt(c, i - 1, j - 1) + CellAt(c, i - 1, j) + CellAt(c, i - 1, j + 1)
    + CellAt(c, i, j - 1)                           + CellAt(c, i, j + 1)
    + CellAt(c, i + 1, j - 1) + CellAt(c, i + 1, j) + CellAt(c, i + 1, j + 1)
CountNeighbors(c, i, j) ==
      CellAt(c, i - 1, j - 1) + CellAt(c, i - 1, j) + CellAt(c, i - 1, j + 1)
    + CellAt(c, i, j - 1)     + CellAt(c, i, j)     + CellAt(c, i, j + 1)
    + CellAt(c, i + 1, j - 1) + CellAt(c, i + 1, j) + CellAt(c, i + 1, j + 1)

\* the rules of the game (main.c:124-133)
RuleSelfNotCounted(alive, n) ==
    IF alive
      THEN IF n < 2 THEN 0 ELSE IF n > 3 THEN 0 ELSE 1
      ELSE IF n = 3 THEN 1 ELSE 0
RuleBirthAtLeast3(alive, n) ==
    IF alive
      THEN IF n < 3 THEN 0 ELSE IF n > 4 THEN 0 ELSE 1
      ELSE IF n >= 3 THEN 1 ELSE 0
RuleBirthAssignTypo(alive, n) ==
    IF alive
      THEN IF n < 3 THEN 0 ELSE IF n > 4 THEN 0 ELSE 1
      ELSE 1
RuleNoLoneliness(alive, n) ==
    IF alive
      THEN IF n > 4 THEN 0 ELSE 1
      ELSE IF n = 3 THEN 1 ELSE 0
Rule(alive, n) ==
    IF alive
      THEN IF n < 3 THEN 0 ELSE IF n > 4 THEN 0 ELSE 1
      ELSE IF n = 3 THEN 1 ELSE 0

\* the cells no statement has assigned
IndetCoords(c) == {d \in Coords : c[d] = Indet}

\* the cell the scan visits k-th: y is the outer loop, x the inner one
\* (main.c:111-112)
ScanCell(k) == << k % N_CELLS_ROW, k \div N_CELLS_ROW >>

\* the grid after the first k cells of a scan that stores each result into
\* the grid it is counting in
RECURSIVE InPlaceScan(_, _)
InPlaceScan(g, k) ==
    IF k = 0 THEN g
    ELSE LET h == InPlaceScan(g, k - 1)
             d == ScanCell(k - 1)
         IN  [h EXCEPT ![d] = Rule(h[d] # 0, CountNeighbors(h, d[1], d[2]))]

\* the two arrays after the counting pass (main.c:107-135): c is the array
\* cells as it is stored, cur the values the pass reads from it
CountPassInPlace(c, cur) ==
    LET r == InPlaceScan(cur, N_CELLS_ROW * N_CELLS_COL)
    IN  [input |-> r, buffer |-> r]
CountPass(c, cur) ==
    [input |-> c,
     buffer |-> [d \in Coords |-> Rule(cur[d] # 0, CountNeighbors(cur, d[1], d[2]))]]

\* the array cells after the copy pass (main.c:138-140)
CopyBackSkipsLastRow(c, n) ==
    [d \in Coords |-> IF d[2] = N_CELLS_COL - 1 THEN c[d] ELSE n[d]]
CopyBack(c, n) == [d \in Coords |-> n[d]]

\* the counting pass of the call (main.c:107-135).  A cell that was never
\* assigned is read as whatever its byte holds.
UpdateCount ==
    /\ pc = "update"
    /\ \E g \in [IndetCoords(cells) -> 0 .. MaxGarbage] :
         LET cur == [d \in Coords |-> IF cells[d] = Indet THEN g[d] ELSE cells[d]]
             cnt == [d \in Coords |-> CountNeighbors(cur, d[1], d[2])]
             res == CountPass(cells, cur)
         IN  /\ oldCells' = cur
             /\ neighbors' = cnt
             /\ newCells' = res.buffer
             /\ cells' = res.input
    /\ pc' = "copy"
    /\ UNCHANGED << config, reader, draws, timing, text, quitObs, exitCode,
                    sdlInit, window, frame, quit, ticked, hist, loopStarted,
                    transitioned >>

\* the copy pass and the return (main.c:137-141)
UpdateCopy ==
    /\ pc = "copy"
    /\ cells' = CopyBack(cells, newCells)
    /\ transitioned' = TRUE
    /\ drawsOfGen' = 0
    /\ ticked' = TRUE
    /\ pc' = "delay"
    /\ UNCHANGED << config, reader, timing, text, quitObs, exitCode, sdlInit,
                    window, frame, quit, hist, loopStarted, oldCells, neighbors,
                    newCells, drawsInFrame >>

\* the whole call
updateCells == UpdateCount \/ UpdateCopy

(***************************************************************************)
(* The program: from the entry of main.                                    *)
(***************************************************************************)
Init ==
    /\ argc \in 1 .. MaxArgc
    /\ SCR_WIDTH \in 1 .. MaxScrWidth
    /\ SCR_HEIGHT \in 1 .. MaxScrHeight
    /\ CELL_SIZE \in 1 .. MaxCellSize
    /\ N_CELLS_ROW * N_CELLS_COL <= MaxCells
    /\ FPS \in 1 .. MaxFps
    /\ SIMULATION_FPS \in 1 .. MaxSimFps
    /\ charSigned \in BOOLEAN
    /\ pc = "start"
    /\ exitCode = NoExit
    /\ sdlInit = FALSE
    /\ window = FALSE
    /\ cells = NoGrid
    /\ x = 0
    /\ y = 0
    /\ nread = 0
    /\ frame = FirstFrame
    /\ quit = FALSE
    /\ oldCells = NoGrid
    /\ neighbors = NoGrid
    /\ newCells = NoGrid
    /\ transitioned = FALSE
    /\ drawsInFrame = 0
    /\ drawsOfGen = 0
    /\ frameStartTime = U32(0)
    /\ frameTime = U32(0)
    /\ delayMs = U32(0)
    /\ text = NoText
    /\ ticked = FALSE
    /\ hist = << >>
    /\ loopStarted = FALSE
    /\ openFailed = FALSE
    /\ sawInvalid = FALSE
    /\ oob = FALSE
    /\ sawQuit = FALSE
    /\ drawnSinceQuit = FALSE
    /\ startedSinceQuit = FALSE

Next ==
    \/ CheckStartup
    \/ SdlSetup
    \/ populateRandomCells
    \/ OpenInput
    \/ ReadChar
    \/ StartFrame
    \/ ExitLoop
    \/ PollEvent
    \/ PollDone
    \/ drawScreen
    \/ updateCells
    \/ FrameDelay

Spec == Init /\ [][Next]_vars

(***************************************************************************)
(* The transition rule on its own: the frame loop entered after a random   *)
(* fill, one cell per pixel and one transition per frame, on every grid of *)
(* up to MaxGridW x MaxGridH and at most MaxGridCells cells.               *)
(***************************************************************************)
InitCells ==
    /\ argc = 1
    /\ SCR_WIDTH \in 1 .. MaxGridW
    /\ SCR_HEIGHT \in 1 .. MaxGridH
    /\ CELL_SIZE = 1
    /\ N_CELLS_ROW * N_CELLS_COL <= MaxGridCells
    /\ FPS = 1
    /\ SIMULATION_FPS = 1
    /\ charSigned \in BOOLEAN
    /\ pc = "loop"
    /\ exitCode = NoExit
    /\ sdlInit = TRUE
    /\ window = TRUE
    /\ cells \in [Coords -> {0, 1}]
    /\ x = 0
    /\ y = 0
    /\ nread = 0
    /\ frame = FirstFrame
    /\ quit = FALSE
    /\ oldCells = NoGrid
    /\ neighbors = NoGrid
    /\ newCells = NoGrid
    /\ transitioned = FALSE
    /\ drawsInFrame = 0
    /\ drawsOfGen = 0
    /\ frameStartTime = U32(0)
    /\ frameTime = U32(0)
    /\ delayMs = U32(0)
    /\ text = NoText
    /\ ticked = FALSE
    /\ hist = << >>
    /\ loopStarted = TRUE
    /\ openFailed = FALSE
    /\ sawInvalid = FALSE
    /\ oob = FALSE
    /\ sawQuit = FALSE
    /\ drawnSinceQuit = FALSE
    /\ startedSinceQuit = FALSE

NextCells ==
    \/ StartFrame
    \/ ExitLoop
    \/ PollEvent
    \/ PollDone
    \/ drawScreen
    \/ updateCells
    \/ FrameDelay

SpecCells == InitCells /\ [][NextCells]_vars

(***************************************************************************)
(* Vocabulary of the properties.                                           *)
(***************************************************************************)
\* updateCells has run at least once and is not running: oldCells is the
\* generation the last call read, cells the generation it produced
Updated == transitioned /\ pc # "copy"

Abs(n) == IF n < 0 THEN -n ELSE n

\* the 3x3 block around a cell, clipped at the grid
Block(c) == {d \in Coords : Abs(d[1] - c[1]) <= 1 /\ Abs(d[2] - c[2]) <= 1}

\* the number of alive cells among the up-to-8 surrounding cells of c
Surrounding(g, c) == Cardinality({d \in Block(c) \ {c} : g[d] = 1})

AllDead(g) == \A c \in Coords : g[c] = 0

AliveSet(g) == {c \in Coords : g[c] = 1}

(***************************************************************************)
(* Properties of the transition rule, checked under SpecCells.             *)
(***************************************************************************)
\* C1 (as stated): a live cell is alive after one updateCells iff 3 or 4 of
\* its surrounding cells, the cell itself not counted, are alive.
C1_SurvivesOn3Or4Surrounding ==
    Updated =>
        \A c \in Coords :
            oldCells[c] = 1 => (cells[c] = 1 <=> Surrounding(oldCells, c) \in {3, 4})

\* C1 (amended): a live cell is alive after one updateCells iff 2 or 3 of its
\* surrounding cells, the cell itself not counted, are alive; with 1 or
\* fewer, or 4 or more, it is dead.
C1_SurvivesOn2Or3Surrounding ==
    Updated =>
        \A c \in Coords :
            oldCells[c] = 1 => (cells[c] = 1 <=> Surrounding(oldCells, c) \in {2, 3})

C1_Witness ==
    /\ Updated
    /\ \E c \in Coords :
         oldCells[c] = 1 /\ Surrounding(oldCells, c) = 2 /\ cells[c] = 1
    /\ \E c \in Coords :
         oldCells[c] = 1 /\ Surrounding(oldCells, c) = 4 /\ cells[c] = 0

\* C2: a dead cell is alive after one updateCells iff exactly 3 of its
\* surrounding cells are alive; on a 3x3 grid with an L of three alive
\* neighbours of the centre, the centre is born.
C2_BirthOnExactly3 ==
    Updated =>
        \A c \in Coords :
            oldCells[c] = 0 => (cells[c] = 1 <=> Surrounding(oldCells, c) = 3)

C2_Witness ==
    /\ Updated
    /\ N_CELLS_ROW = 3
    /\ N_CELLS_COL = 3
    /\ AliveSet(oldCells) = { << 0, 0 >>, << 1, 0 >>, << 0, 1 >> }
    /\ cells[<< 1, 1 >>] = 1

\* C6 (as stated): the count computed for a cell never exceeds the number of
\* its surrounding in-grid cells, and for the corner (0,0) it is at most 3.
C6_CornerCountAtMost3 ==
    Updated =>
        /\ \A c \in Coords : neighbors[c] <= Cardinality(Block(c) \ {c})
        /\ neighbors[<< 0, 0 >>] <= 3

\* C6 (amended): the count computed for a cell is the number of alive cells
\* of its 3x3 block clipped at the grid, the cell itself included: nothing
\* outside the grid and nothing from the opposite edge is counted, and for
\* the corner (0,0) the count is at most 4.
C6_CountIsClippedBlock ==
    Updated =>
        /\ \A c \in Coords :
             neighbors[c] = Cardinality({d \in Block(c) : oldCells[d] = 1})
        /\ neighbors[<< 0, 0 >>] <= 4

C6_Witness ==
    /\ Updated
    /\ N_CELLS_ROW = 3
    /\ N_CELLS_COL = 3
    /\ oldCells[<< 2, 2 >>] = 1
    /\ oldCells[<< 0, 2 >>] = 1
    /\ oldCells[<< 2, 0 >>] = 1
    /\ neighbors[<< 0, 0 >>] = 4

\* C7: a grid with no alive cell has no alive cell after any number of
\* updateCells calls: no step takes an all-dead grid to another grid.
C7_AllDeadStaysAllDead == [][AllDead(cells) => AllDead(cells')]_vars

C7_Witness ==
    /\ Updated
    /\ N_CELLS_ROW = 3
    /\ N_CELLS_COL = 3
    /\ AllDead(oldCells)
    /\ AllDead(cells)

\* C8: a live cell none of whose surrounding cells is alive is dead after
\* one updateCells, wherever it is in the grid.
C8_LoneCellDies ==
    Updated =>
        \A c \in Coords :
            (oldCells[c] = 1 /\ Surrounding(oldCells, c) = 0) => cells[c] = 0

C8_Witness ==
    /\ Updated
    /\ N_CELLS_ROW = 3
    /\ N_CELLS_COL = 3
    /\ AliveSet(oldCells) = { << 1, 1 >> }
    /\ AllDead(cells)

(***************************************************************************)
(* Properties of the program, checked under Spec.                          *)
(***************************************************************************)
\* C3: updateCells runs in exactly the frames whose counter is 0 on entry,
\* and every N = FPS / SIMULATION_FPS consecutive frames hold exactly one
\* transition.
C3_OneTickPerNFrames ==
    loopStarted =>
        /\ pc = "delay" => (ticked <=> frame = 0)
        /\ Len(hist) = FRAMES_PER_ITERATION =>
             Cardinality({i \in 1 .. Len(hist) : hist[i]}) = 1

C3_Witness ==
    /\ FRAMES_PER_ITERATION = 3
    /\ hist = << FALSE, FALSE, TRUE >>

\* C4: once a quit event or an Escape key-down has been polled, the frame
\* that polled it still calls drawScreen, no further frame is started, and
\* main returns EXIT_SUCCESS.
C4_QuitEndsAfterThisFrame ==
    /\ sawQuit => quit
    /\ (sawQuit /\ pc \notin {"poll", "draw"}) => drawnSinceQuit
    /\ ~startedSinceQuit
    /\ (sawQuit /\ pc = "done") => exitCode = EXIT_SUCCESS

C4_Witness ==
    /\ pc = "done"
    /\ sawQuit
    /\ drawnSinceQuit
    /\ exitCode = EXIT_SUCCESS

\* C5: the loop, once started, is left only after a quit event or an Escape
\* key-down has been polled.
C5_OnlyQuitStopsLoop ==
    (loopStarted /\ pc \notin LoopPcs) => (pc = "done" /\ sawQuit)

C5_Witness ==
    /\ loopStarted
    /\ pc = "done"
    /\ sawQuit
    /\ Len(hist) >= 2
    /\ Updated

\* C9: a file that cannot be opened, or that holds a character other than
\* '#', '.' and newline, makes the program end with a non-zero status
\* without ever entering the main loop.
C9_BadFileNeverRuns ==
    (openFailed \/ sawInvalid) =>
        /\ ~loopStarted
        /\ pc \notin LoopPcs
        /\ pc = "done" => exitCode = EXIT_FAILURE

\* C10: with more than one argument, a display dimension that is not a
\* multiple of the cell size, or a simulation rate above the render rate,
\* the program ends with a non-zero status before SDL is initialised, before
\* a window exists, without a grid and without entering the main loop.
C10_BadStartupExitsEarly ==
    (\/ argc - 1 > 1
     \/ SCR_WIDTH % CELL_SIZE # 0
     \/ SCR_HEIGHT % CELL_SIZE # 0
     \/ SIMULATION_FPS > FPS) =>
        /\ ~sdlInit
        /\ ~window
        /\ cells = NoGrid
        /\ ~loopStarted
        /\ pc \in {"start", "done"}
        /\ pc = "done" => exitCode = EXIT_FAILURE

C10_Witness ==
    /\ pc = "done"
    /\ exitCode = EXIT_FAILURE
    /\ SIMULATION_FPS > FPS
    /\ argc <= 2
    /\ SCR_WIDTH % CELL_SIZE = 0
    /\ SCR_HEIGHT % CELL_SIZE = 0

(***************************************************************************)
(* Properties of readInput and of the initial grid, checked under Spec.    *)
(***************************************************************************)
\* the text read is a block of exactly N_CELLS_COL lines of exactly
\* N_CELLS_ROW characters of '#' and '.', with or without a final newline
CompleteBlock(t) ==
    /\ t.ok
    /\ t.eof
    /\ \/ t.row = N_CELLS_COL - 1 /\ t.col = N_CELLS_ROW
       \/ t.row = N_CELLS_COL /\ t.col = 0

\* C11: for a text block of exactly height lines of exactly width characters
\* of '#' and '.', readInput succeeds and cell (x, y) is alive exactly when
\* character x of line y is '#'.
C11_BlockRoundTrip ==
    CompleteBlock(text) => (loopStarted /\ pc = "loop" /\ cells = text.grid)

\* C12: a file with a line longer than the grid width or with more rows than
\* the grid height is rejected with an error, and readInput never stores a
\* cell at a column >= width or a row >= height.
C12_OverlongRejected ==
    /\ ~oob
    /\ text.over => (pc = "done" /\ exitCode = EXIT_FAILURE)

\* C13: while the main loop runs every cell of the grid has a boolean value
\* that the initialiser or a transition has assigned.
C13_NoUnassignedCell ==
    (loopStarted /\ pc \in LoopPcs) => \A d \in Coords : cells[d] \in {0, 1}

(***************************************************************************)
(* Properties of the frame loop, checked under Spec.                       *)
(***************************************************************************)
\* C14: every frame calls drawScreen exactly once, and when drawScreen runs
\* the grid is a whole generation: the initial grid while no updateCells call
\* has started, the complete result of the last call afterwards.
C14_DrawsWholeGenerationOnce ==
    loopStarted =>
        /\ drawsInFrame = IF pc \in {"poll", "draw"} THEN 0
                          ELSE IF pc \in {"update", "copy", "delay"} THEN 1
                          ELSE IF hist = << >> THEN 0 ELSE 1
        /\ (pc = "draw" /\ transitioned) => cells = newCells
        /\ (pc = "draw" /\ ~transitioned) => newCells = NoGrid

C14_Witness ==
    /\ pc = "update"
    /\ drawsInFrame = 1
    /\ transitioned
    /\ N_CELLS_COL = 2
    /\ cells = newCells
    /\ cells # oldCells

\* C16: the delay passed to SDL_Delay is max(0, T - elapsed) with
\* T = 1000 / FPS and elapsed the Uint32 difference of the two tick readings;
\* it is 0 when elapsed > T and never a wrapped-around huge value.
C16_DelayIsClampedRemainder ==
    (loopStarted /\ hist # << >> /\ pc \in {"loop", "done"}) =>
        /\ frameTime.hi = 0
        /\ frameTime.lo \in ElapsedChoices
        /\ delayMs.hi = 0
        /\ delayMs.lo = IF 1000 \div FPS - frameTime.lo < 0 THEN 0
                        ELSE 1000 \div FPS - frameTime.lo
        /\ frameTime.lo > 1000 \div FPS => delayMs.lo = 0

C16_Witness ==
    /\ pc = "loop"
    /\ hist # << >>
    /\ frameStartTime = [hi |-> HALF - 1, lo |-> HALF - 1]
    /\ frameTime = [hi |-> 0, lo |-> 1000 \div FPS + 1]
    /\ delayMs = [hi |-> 0, lo |-> 0]

\* C18: the frame counter starts at 0 and a frame draws before it updates:
\* the initial generation is drawn in exactly one frame, the first transition
\* runs in the first frame, and every later generation is drawn in exactly
\* N = FRAMES_PER_ITERATION frames before it is replaced (in fewer only when
\* the loop ends first).
C18_GenerationDrawnNTimes ==
    loopStarted =>
        /\ (hist = << >> /\ pc \in LoopPcs) => frame = 0
        /\ drawsOfGen <= IF transitioned THEN FRAMES_PER_ITERATION ELSE 1
        /\ pc \in {"update", "copy"} =>
             drawsOfGen = IF transitioned THEN FRAMES_PER_ITERATION ELSE 1
        /\ hist # << >> => transitioned

C18_Witness ==
    /\ FRAMES_PER_ITERATION = 3
    /\ pc = "update"
    /\ transitioned
    /\ drawsOfGen = 3

(***************************************************************************)
(* Properties of the two passes of updateCells, checked under SpecCells.   *)
(***************************************************************************)
\* the canonical rule of the Game of Life on the surrounding cells of c
Canonical(g, c) ==
    IF g[c] = 1 THEN Surrounding(g, c) \in {2, 3} ELSE Surrounding(g, c) = 3

\* C15: the counting pass does not write the input grid: it fills the buffer
\* from the values of generation t alone, and the grid changes only in the
\* copy pass, after the whole buffer has been computed.
C15_CountingPassLeavesInput ==
    [][/\ pc = "update" =>
            /\ cells' = cells
            /\ \A d \in Coords : newCells'[d] = 1 <=> Canonical(cells, d)
       /\ cells' # cells => (pc = "copy" /\ cells' = newCells)]_vars

C15_Witness ==
    /\ pc = "copy"
    /\ N_CELLS_ROW = 3
    /\ N_CELLS_COL = 3
    /\ cells = oldCells
    /\ newCells # cells
    /\ AliveSet(cells) = { << 0, 1 >>, << 1, 1 >>, << 2, 1 >> }

\* C17: the count includes the cell itself, and on the surrounding cells
\* alone updateCells is the canonical rule: a live cell survives iff 2 or 3
\* of them are alive, a dead cell is born iff exactly 3 are.
C17_CanonicalLife ==
    Updated =>
        \A c \in Coords :
            /\ neighbors[c] = oldCells[c] + Surrounding(oldCells, c)
            /\ cells[c] = 1 <=> Canonical(oldCells, c)

C17_Witness ==
    /\ Updated
    /\ N_CELLS_ROW = 3
    /\ N_CELLS_COL = 3
    /\ AliveSet(oldCells) = { << 0, 1 >>, << 1, 1 >>, << 2, 1 >> }
    /\ AliveSet(cells) = { << 1, 0 >>, << 1, 1 >>, << 1, 2 >> }
    /\ neighbors[<< 1, 1 >>] = 3

====
